---- MODULE Spec2Model ----
(***************************************************************************)
(* The e-cash driver of src/driver.js: a bank signs a blinded coin, two    *)
(* merchants accept it with a cut-and-choose disclosure of identity        *)
(* shares, and determineCheater compares the two acceptance transcripts.   *)
(*                                                                         *)
(* driver.js is the only file of the repository at hand.  Coin (coin.js),  *)
(* utils.hash / utils.decryptOTP (utils.js) and the identifier parseCoin   *)
(* are used by it but defined elsewhere; they are modelled from spec.md.   *)
(* The blind-signature library is modelled symbolically (a signature is a  *)
(* term naming the message, the signing key and the blinding still on it). *)
(*                                                                         *)
(* Strings are sequences of character codes, byte buffers are records      *)
(* [ref, bytes]: ref is the object's identity (what JavaScript's !==       *)
(* compares for two Buffers), bytes its content.  Positions are 0-based as *)
(* in the source; position i of an array is element i+1 of its sequence.   *)
(***************************************************************************)
EXTENDS Integers, Sequences, FiniteSets, TLC

VARIABLES
    BANK_KEY,        \* driver.js:10-20, the bank's key pair
    N,               \* driver.js:23, the bank's modulus ("" until it is derived)
    E,               \* driver.js:24, the bank's public exponent ("" until it is derived)
    parseCoinBound,  \* whether the free identifier parseCoin (driver.js:65) resolves
    risLength,       \* the value coin.js exports as COIN_RIS_LENGTH (driver.js:6)
    coin,            \* the Coin object of the run, or NoCoin before construction
    tamper,          \* what was altered on the coin after signing ("none" if nothing)
    pc,              \* the caller's position in the sequence of main (driver.js:119-145)
    ris1,            \* first transcript argument (main's ris1)
    ris2,            \* second transcript argument (main's ris2)
    lastAccept,      \* outcome of the most recent acceptCoin call
    signLog,         \* the signCoin calls of the blind-sign exchange in progress:
                     \* argument, bank state, outcome (dropped once the coin is unblinded)
    verdict1,        \* outcome of determineCheater(guid, ris1, ris2)  (driver.js:138)
    verdict2         \* outcome of determineCheater(guid, ris1, ris1)  (driver.js:139)

vars == <<BANK_KEY, N, E, parseCoinBound, risLength, coin, tamper, pc, ris1, ris2, lastAccept, signLog,
          verdict1, verdict2>>

----------------------------------------------------------------------------
(* Bounds of the model *)

\* the number of disclosure positions per coin where coin.js exports a positive one
RisLengthBound == 3

\* COIN_RIS_LENGTH, imported from coin.js (driver.js:6): fixed once the module is loaded
COIN_RIS_LENGTH == risLength

\* how often a blind-sign request for one coin is sent to the bank
MaxSignRequests == 2

\* number of distinct random draws (pads, guid, blinding factor) a coin can be built from
NumSeeds == 2

----------------------------------------------------------------------------
(* Strings and bytes *)

\* "IDENT", the sentinel a decoded identity string starts with (coin.js, driver.js:6)
IDENT_STR == <<73, 68, 69, 78, 84>>

\* the literal 'merchant' of driver.js:115
MerchantStr == <<109, 101, 114, 99, 104, 97, 110, 116>>

\* the purchaser of main, 'alice' (driver.js:122), and two other identities
Alice == <<97, 108, 105, 99, 101>>
Bob == <<98, 111, 98>>
ColonId == <<97, 58, 98>>
Purchasers == {Alice, Bob, ColonId}

\* the amount of main (driver.js:122) and one other
Amounts == {20, 5}

\* JavaScript values a function of the driver returns
JSString(s) == [t |-> "string", s |-> s]
Undefined == [t |-> "undefined", s |-> <<>>]

RECURSIVE XorInt(_, _)
\* bitwise exclusive or of two non-negative integers
XorInt(a, b) ==
    IF a = 0 /\ b = 0 THEN 0
    ELSE (((a % 2) + (b % 2)) % 2) + 2 * XorInt(a \div 2, b \div 2)

\* String.prototype.startsWith
startsWith(s, prefix) ==
    /\ Len(s) >= Len(prefix)
    /\ SubSeq(s, 1, Len(prefix)) = prefix

RECURSIVE splitFrom(_, _, _, _)
\* String.prototype.split(sep) for a one-character separator: the list of segments
splitFrom(s, sep, k, cur) ==
    IF k > Len(s) THEN <<cur>>
    ELSE IF s[k] = sep THEN <<cur>> \o splitFrom(s, sep, k + 1, <<>>)
    ELSE splitFrom(s, sep, k + 1, Append(cur, s[k]))

split(s, sep) == splitFrom(s, sep, 1, <<>>)

\* Buffer.prototype.toString(): ASCII bytes are their characters, any other byte
\* decodes to the replacement character U+FFFD
bufferToString(bytes) ==
    [k \in 1..Len(bytes) |-> IF bytes[k] < 128 THEN bytes[k] ELSE 65533]

----------------------------------------------------------------------------
(* utils.js (modelled from spec.md section 6) *)

\* utils.hash: deterministic and collision-resistant, so an injective tag of the content
hash(value) == [digest |-> value.bytes]

\* a Buffer that is the share Buffer.from(x) copies; undefined has no bytes to copy
NoValue == [ref |-> <<"undefined", 0>>, bytes |-> <<>>]

\* utils.decryptOTP({key, ciphertext, returnType: 'string'}): throws unless the two
\* have the same length, otherwise the bytewise xor decoded as a string
decryptOTP(key, ciphertext) ==
    IF key = NoValue \/ ciphertext = NoValue \/ Len(key.bytes) # Len(ciphertext.bytes)
    THEN [threw |-> TRUE, str |-> <<>>]
    ELSE [threw |-> FALSE,
          str |-> bufferToString([k \in 1..Len(key.bytes) |->
                                      XorInt(key.bytes[k], ciphertext.bytes[k])])]

----------------------------------------------------------------------------
(* blind-signatures library (external, modelled from spec.md section 6) *)

\* keyGeneration(): the key pair the bank runs with
GeneratedKey == [keyPair |-> [n |-> "n_bank", e |-> "e_bank", d |-> "d_bank"]]

\* BANK_KEY before anything is assigned to it (let BANK_KEY, driver.js:10)
UndefinedKey == [undefined |-> TRUE]

\* an object keyGeneration hands back that has no keyPair
ObjectWithoutKeyPair == [bits |-> 512]

\* what a keyGeneration call can end with: it throws, or it returns undefined, an
\* object without keyPair, or a key pair
KeyGenerationOutcomes ==
    {[threw |-> TRUE, key |-> UndefinedKey],
     [threw |-> FALSE, key |-> UndefinedKey],
     [threw |-> FALSE, key |-> ObjectWithoutKeyPair],
     [threw |-> FALSE, key |-> GeneratedKey]}

\* a modulus that is not the bank's
OtherModulus == "n_other"

\* blind({message, N, E}): the message hidden under blinding factor r
blind(message, n, e, r) == [message |-> message, n |-> n, r |-> r]

\* a signature term: mask is the blinding factor still on it, 0 when none,
\* -1 when the term is no signature of anything
NoSignature == [present |-> FALSE, message |-> <<>>, key |-> "", mask |-> -1]

\* sign({blinded, key})
sign(blinded, key) ==
    [present |-> TRUE, message |-> blinded.message, key |-> key.keyPair.n,
     mask |-> IF blinded.n = key.keyPair.n THEN blinded.r ELSE -1]

\* a blinded message that is no number the library can sign
MalformedBlinded == [message |-> <<>>, n |-> "", r |-> -1]

\* sign({blinded, key}) throws when the key material is invalid (spec.md 4.2, Sign) or
\* the blinded message is no number
signThrows(blinded, key) == key.keyPair.d = "" \/ blinded = MalformedBlinded

\* unblind({signed, N, r})
unblind(signed, n, r) ==
    [signed EXCEPT !.mask = IF signed.mask = r /\ signed.key = n THEN 0 ELSE -1]

\* the public exponent that belongs to a modulus
exponentOf(n) == IF n = "n_bank" THEN "e_bank" ELSE "e_other"

\* verify({unblinded, N, E, message})
verify(unblinded, n, e, message) ==
    /\ unblinded.mask = 0
    /\ unblinded.key = n
    /\ e = exponentOf(n)
    /\ unblinded.message = message

----------------------------------------------------------------------------
(* Coin (coin.js, modelled from spec.md sections 3, 4.1 and 4.2) *)

NoCoin == [exists |-> FALSE, guid |-> 0]

Positions == 0..(COIN_RIS_LENGTH - 1)

\* the string every left/right pair of shares combines to
identityString(purchaser) == IDENT_STR \o <<58>> \o purchaser

\* the random one-time pad drawn for position i
pad(seed, i, len) == [k \in 1..len |-> (31 * seed + 17 * i + 7 * k + seed * i * k) % 128]

\* coin.toString(): the canonical serialization that is blinded, signed and verified
toString(c) ==
    [amount |-> c.amount, guid |-> c.guid,
     leftHashes |-> c.leftHashes, rightHashes |-> c.rightHashes]

\* the left share of position i: the pad itself
leftShare(purchaser, seed, i) ==
    [ref |-> <<"left", i>>, bytes |-> pad(seed, i, Len(identityString(purchaser)))]

\* the right share of position i: the identity string under the pad
rightShare(purchaser, seed, i) ==
    [ref |-> <<"right", i>>,
     bytes |-> [j \in 1..Len(identityString(purchaser)) |->
                   XorInt(leftShare(purchaser, seed, i).bytes[j],
                          identityString(purchaser)[j])]]

\* the fields of a coin built for purchaser and amount under the bank key (n, e)
NewCoin(purchaser, amount, n, e, seed) ==
    LET left == [k \in 1..COIN_RIS_LENGTH |-> leftShare(purchaser, seed, k - 1)]
        right == [k \in 1..COIN_RIS_LENGTH |-> rightShare(purchaser, seed, k - 1)]
        c == [exists |-> TRUE, purchaser |-> purchaser, amount |-> amount, guid |-> seed,
              n |-> n, e |-> e,
              leftIdent |-> left, rightIdent |-> right,
              leftHashes |-> [k \in 1..COIN_RIS_LENGTH |-> hash(left[k])],
              rightHashes |-> [k \in 1..COIN_RIS_LENGTH |-> hash(right[k])],
              blindingFactor |-> seed + 1,
              blinded |-> <<>>,
              signature |-> NoSignature]
    IN  [c EXCEPT !.blinded = blind(toString(c), n, e, seed + 1)]

\* what a call ends with: a returned value or a thrown error
Return(v) == [kind |-> "return", value |-> v, error |-> ""]
Throw(msg) == [kind |-> "throw", value |-> Undefined, error |-> msg]

\* the Coin constructor with no check of the number of positions
CoinConstructorAcceptsZeroLength(purchaser, amount, n, e, seed) ==
    Return(NewCoin(purchaser, amount, n, e, seed))

\* new Coin(purchaser, amount, n, e): with COIN_RIS_LENGTH = 0 construction is rejected
\* (spec.md section 9, boundary)
CoinConstructor(purchaser, amount, n, e, seed) ==
    IF COIN_RIS_LENGTH = 0 THEN Throw("COIN_RIS_LENGTH must be positive")
    ELSE Return(NewCoin(purchaser, amount, n, e, seed))

\* coin.getRis(isLeft, i)
getRis(c, isLeft, i) == IF isLeft THEN c.leftIdent[i + 1] ELSE c.rightIdent[i + 1]

\* coin.unblind()
coinUnblind(c) == [c EXCEPT !.signature = unblind(c.signature, c.n, c.blindingFactor)]

----------------------------------------------------------------------------
(* driver.js *)

\* driver.js:13, BANK_KEY?.keyPair
hasKeyPair(key) == "keyPair" \in DOMAIN key

\* what a signCoin call ends with, and how often it invoked blindSignatures.sign
Signed(signature) ==
    [kind |-> "return", value |-> signature, error |-> "", attempts |-> 1]
SignFailed(msg, attempts) ==
    [kind |-> "throw", value |-> Undefined, error |-> msg, attempts |-> attempts]

\* signCoin with a request counter of the bank mixed into the signature
signCoinCountsRequests(blindedCoinHash) ==
    IF blindedCoinHash = <<>> THEN SignFailed("Blinded hash is required", 0)
    ELSE IF signThrows(blindedCoinHash, BANK_KEY) THEN SignFailed("Coin signing failed", 1)
    ELSE Signed([sign(blindedCoinHash, BANK_KEY) EXCEPT !.mask = @ + Len(signLog)])

\* driver.js:27-42
signCoin(blindedCoinHash) ==
    IF blindedCoinHash = <<>> THEN SignFailed("Blinded hash is required", 0)
    ELSE IF signThrows(blindedCoinHash, BANK_KEY) THEN SignFailed("Coin signing failed", 1)
    ELSE Signed(sign(blindedCoinHash, BANK_KEY))

\* an entry of the log of signCoin calls
SignCall(blindedCoinHash, out) ==
    [blinded |-> blindedCoinHash, key |-> BANK_KEY, n |-> N, e |-> E, out |-> out]

\* driver.js:47-52, the body of the try: coin.signature.toString() throws a TypeError
\* when the coin has no signature, otherwise the library verifies under N and E the
\* message coin.toString() yields now
verifyAttempt(c) ==
    IF ~c.signature.present THEN [threw |-> TRUE, valid |-> FALSE]
    ELSE [threw |-> FALSE, valid |-> verify(c.signature, N, E, toString(c))]

\* verifySignature with the message taken as it was when the coin was blinded
verifySignatureStaleMessage(c) ==
    IF ~c.signature.present THEN FALSE
    ELSE verify(c.signature, N, E, c.blinded.message)

\* verifySignature with a catch that lets the coin pass
verifySignatureFailOpen(c) ==
    IF verifyAttempt(c).threw THEN TRUE ELSE verifyAttempt(c).valid

\* driver.js:45-57: the catch turns a throw into false
verifySignature(c) ==
    IF verifyAttempt(c).threw THEN FALSE ELSE verifyAttempt(c).valid

\* parseCoin(s), called at driver.js:65 and neither declared nor imported in driver.js:
\* where the identifier resolves it yields the two lists of commitment hashes of the
\* serialized coin (spec.md 4.3 step 3), where it does not the call throws ReferenceError
parseCoin(s) ==
    IF parseCoinBound
    THEN [threw |-> FALSE, leftHashes |-> s.leftHashes, rightHashes |-> s.rightHashes]
    ELSE [threw |-> TRUE, leftHashes |-> <<>>, rightHashes |-> <<>>]

\* one call acceptCoin makes: which function, and for getRis and the random draw the
\* side and the position
Call(name, isLeft, i) == [call |-> name, isLeft |-> isLeft, i |-> i]
VerifyCall == Call("verifySignature", FALSE, -1)
ParseCall == Call("parseCoin", FALSE, -1)

\* what an acceptCoin call ends with: a transcript or an error (at: the position a
\* share failed at), and the calls it made, in order
Accepted(ris, calls) ==
    [kind |-> "return", ris |-> ris, error |-> "", at |-> -1, calls |-> calls]
Rejected(msg, at, calls) ==
    [kind |-> "throw", ris |-> <<>>, error |-> msg, at |-> at, calls |-> calls]

RECURSIVE acceptLoopSkipsMismatch(_, _, _, _, _, _, _)
\* acceptLoop with the mismatching share dropped instead of the coin rejected
acceptLoopSkipsMismatch(c, leftHashes, rightHashes, selectLeft, i, risElements, calls) ==
    IF i >= COIN_RIS_LENGTH THEN Accepted(risElements, calls)
    ELSE
        LET element == getRis(c, selectLeft[i + 1], i)
            expectedHash == IF selectLeft[i + 1] THEN leftHashes[i + 1] ELSE rightHashes[i + 1]
            called == calls \o <<Call("randomInt", selectLeft[i + 1], i),
                                 Call("getRis", selectLeft[i + 1], i)>>
        IN  acceptLoopSkipsMismatch(c, leftHashes, rightHashes, selectLeft, i + 1,
                IF hash(element) # expectedHash THEN risElements
                ELSE Append(risElements,
                            [position |-> i, isLeft |-> selectLeft[i + 1],
                             value |-> element, hash |-> expectedHash]),
                called)

RECURSIVE acceptLoopRecordsLeftHash(_, _, _, _, _, _, _)
\* acceptLoop with the left commitment recorded whatever side was disclosed
acceptLoopRecordsLeftHash(c, leftHashes, rightHashes, selectLeft, i, risElements, calls) ==
    IF i >= COIN_RIS_LENGTH THEN Accepted(risElements, calls)
    ELSE
        LET element == getRis(c, selectLeft[i + 1], i)
            expectedHash == IF selectLeft[i + 1] THEN leftHashes[i + 1] ELSE rightHashes[i + 1]
            called == calls \o <<Call("randomInt", selectLeft[i + 1], i),
                                 Call("getRis", selectLeft[i + 1], i)>>
        IN  IF hash(element) # expectedHash
            THEN Rejected("RIS validation failed at position", i, called)
            ELSE acceptLoopRecordsLeftHash(c, leftHashes, rightHashes, selectLeft, i + 1,
                            Append(risElements,
                                   [position |-> i, isLeft |-> selectLeft[i + 1],
                                    value |-> element, hash |-> leftHashes[i + 1]]),
                            called)

RECURSIVE acceptLoop(_, _, _, _, _, _, _)
\* driver.js:68-85, from position i on; selectLeft[i+1] is the bit crypto.randomInt draws
acceptLoop(c, leftHashes, rightHashes, selectLeft, i, risElements, calls) ==
    IF i >= COIN_RIS_LENGTH THEN Accepted(risElements, calls)
    ELSE
        LET element == getRis(c, selectLeft[i + 1], i)
            expectedHash == IF selectLeft[i + 1] THEN leftHashes[i + 1] ELSE rightHashes[i + 1]
            called == calls \o <<Call("randomInt", selectLeft[i + 1], i),
                                 Call("getRis", selectLeft[i + 1], i)>>
        IN  IF hash(element) # expectedHash
            THEN Rejected("RIS validation failed at position", i, called)
            ELSE acceptLoop(c, leftHashes, rightHashes, selectLeft, i + 1,
                            Append(risElements,
                                   [position |-> i, isLeft |-> selectLeft[i + 1],
                                    value |-> element, hash |-> expectedHash]),
                            called)

\* acceptCoin with the result of verifySignature ignored
acceptCoinIgnoresVerify(c, selectLeft) ==
    LET parsed == parseCoin(toString(c))
    IN  IF parsed.threw
        THEN Rejected("ReferenceError: parseCoin is not defined", -1,
                      <<VerifyCall, ParseCall>>)
        ELSE acceptLoop(c, parsed.leftHashes, parsed.rightHashes, selectLeft, 0, <<>>,
                        <<VerifyCall, ParseCall>>)

\* driver.js:60-86
acceptCoin(c, selectLeft) ==
    IF ~verifySignature(c)
    THEN Rejected("Invalid coin signature: Potential forgery detected", -1, <<VerifyCall>>)
    ELSE
        LET parsed == parseCoin(toString(c))
        IN  IF parsed.threw
            THEN Rejected("ReferenceError: parseCoin is not defined", -1,
                          <<VerifyCall, ParseCall>>)
            ELSE acceptLoop(c, parsed.leftHashes, parsed.rightHashes, selectLeft, 0, <<>>,
                            <<VerifyCall, ParseCall>>)

\* JavaScript arrays and what is passed where an array is expected
Array(items) == [isArray |-> TRUE, items |-> items]
NotAnArray == [isArray |-> FALSE, items |-> <<>>]

\* an array entry that is undefined (a hole, or an index past the end)
UndefinedEntry == [t |-> "undefined"]

\* ris[i] of JavaScript: undefined past the end of the array
entryAt(ris, i) == IF i + 1 <= Len(ris.items) THEN ris.items[i + 1] ELSE UndefinedEntry

\* what a determineCheater call ends with, and the number of positions it looked at
Verdict(kind, value, error, scanned) ==
    [kind |-> kind, value |-> value, error |-> error, scanned |-> scanned]

RECURSIVE cheaterLoopOffByOne(_, _, _)
\* cheaterLoop with the loop running one position too far (i <= COIN_RIS_LENGTH)
cheaterLoopOffByOne(r1, r2, i) ==
    IF i > COIN_RIS_LENGTH THEN Verdict("return", JSString(MerchantStr), "", i)
    ELSE IF entryAt(r1, i) = UndefinedEntry \/ entryAt(r2, i) = UndefinedEntry
    THEN Verdict("throw", Undefined, "TypeError: Cannot read properties of undefined", i + 1)
    ELSE IF entryAt(r1, i).value.ref # entryAt(r2, i).value.ref
    THEN LET decrypted == decryptOTP(entryAt(r1, i).value, entryAt(r2, i).value)
         IN  IF ~decrypted.threw /\ startsWith(decrypted.str, IDENT_STR)
             THEN LET parts == split(decrypted.str, 58)
                  IN  Verdict("return",
                              IF Len(parts) >= 2 THEN JSString(parts[2]) ELSE Undefined,
                              "", i + 1)
             ELSE cheaterLoopOffByOne(r1, r2, i + 1)
    ELSE cheaterLoopOffByOne(r1, r2, i + 1)

RECURSIVE cheaterLoopStopsAtBadDecode(_, _, _)
\* cheaterLoop with a failed decode ending the scan with 'merchant'
cheaterLoopStopsAtBadDecode(r1, r2, i) ==
    IF i >= COIN_RIS_LENGTH THEN Verdict("return", JSString(MerchantStr), "", i)
    ELSE IF entryAt(r1, i) = UndefinedEntry \/ entryAt(r2, i) = UndefinedEntry
    THEN Verdict("throw", Undefined, "TypeError: Cannot read properties of undefined", i + 1)
    ELSE IF entryAt(r1, i).value.ref # entryAt(r2, i).value.ref
    THEN LET decrypted == decryptOTP(entryAt(r1, i).value, entryAt(r2, i).value)
         IN  IF ~decrypted.threw /\ startsWith(decrypted.str, IDENT_STR)
             THEN LET parts == split(decrypted.str, 58)
                  IN  Verdict("return",
                              IF Len(parts) >= 2 THEN JSString(parts[2]) ELSE Undefined,
                              "", i + 1)
             ELSE Verdict("return", JSString(MerchantStr), "", i + 1)
    ELSE cheaterLoopStopsAtBadDecode(r1, r2, i + 1)

RECURSIVE cheaterLoopFirstMustBeLeft(_, _, _)
\* cheaterLoop with the decode attempted only where the first transcript holds the
\* left share (the pad) and the second the right one
cheaterLoopFirstMustBeLeft(r1, r2, i) ==
    IF i >= COIN_RIS_LENGTH THEN Verdict("return", JSString(MerchantStr), "", i)
    ELSE IF entryAt(r1, i) = UndefinedEntry \/ entryAt(r2, i) = UndefinedEntry
    THEN Verdict("throw", Undefined, "TypeError: Cannot read properties of undefined", i + 1)
    ELSE IF entryAt(r1, i).value.ref # entryAt(r2, i).value.ref /\ entryAt(r1, i).isLeft
    THEN LET decrypted == decryptOTP(entryAt(r1, i).value, entryAt(r2, i).value)
         IN  IF ~decrypted.threw /\ startsWith(decrypted.str, IDENT_STR)
             THEN LET parts == split(decrypted.str, 58)
                  IN  Verdict("return",
                              IF Len(parts) >= 2 THEN JSString(parts[2]) ELSE Undefined,
                              "", i + 1)
             ELSE cheaterLoopFirstMustBeLeft(r1, r2, i + 1)
    ELSE cheaterLoopFirstMustBeLeft(r1, r2, i + 1)

RECURSIVE cheaterLoop(_, _, _)
\* driver.js:94-115, from position i on
cheaterLoop(r1, r2, i) ==
    IF i >= COIN_RIS_LENGTH THEN Verdict("return", JSString(MerchantStr), "", i)
    ELSE IF entryAt(r1, i) = UndefinedEntry \/ entryAt(r2, i) = UndefinedEntry
    THEN Verdict("throw", Undefined, "TypeError: Cannot read properties of undefined", i + 1)
    ELSE IF entryAt(r1, i).value.ref # entryAt(r2, i).value.ref
    THEN LET decrypted == decryptOTP(entryAt(r1, i).value, entryAt(r2, i).value)
         IN  IF ~decrypted.threw /\ startsWith(decrypted.str, IDENT_STR)
             THEN LET parts == split(decrypted.str, 58)
                  IN  Verdict("return",
                              IF Len(parts) >= 2 THEN JSString(parts[2]) ELSE Undefined,
                              "", i + 1)
             ELSE cheaterLoop(r1, r2, i + 1)
    ELSE cheaterLoop(r1, r2, i + 1)

\* driver.js:89-116
determineCheater(guid, r1, r2) ==
    IF ~r1.isArray \/ ~r2.isArray
    THEN Verdict("throw", Undefined, "Invalid RIS data format", 0)
    ELSE cheaterLoop(r1, r2, 0)

----------------------------------------------------------------------------
(* The callers of the driver's functions *)

\* the bits crypto.randomInt(0, 2) === 0 can draw in one acceptCoin run (driver.js:69)
Challenges == [1..COIN_RIS_LENGTH -> BOOLEAN]

NoAccept == [kind |-> "none", ris |-> <<>>, error |-> "", at |-> -1, calls |-> <<>>]
NoVerdict == Verdict("none", Undefined, "", 0)
NoTamper == [kind |-> "none", at |-> -1, when |-> "never"]

\* what can be altered on a coin after the bank signed it
TamperKinds == {"leftHash", "rightHash", "leftShare", "rightShare", "amount", "bankKey"}

\* a buffer with its first byte changed in place (the same object, other content)
corrupted(value) == [value EXCEPT !.bytes[1] = XorInt(@, 1)]

\* the coin with one field altered
altered(c, kind, i) ==
    CASE kind = "leftHash" -> [c EXCEPT !.leftHashes[i + 1] = hash(corrupted(c.leftIdent[i + 1]))]
      [] kind = "rightHash" -> [c EXCEPT !.rightHashes[i + 1] = hash(corrupted(c.rightIdent[i + 1]))]
      [] kind = "leftShare" -> [c EXCEPT !.leftIdent[i + 1] = corrupted(@)]
      [] kind = "rightShare" -> [c EXCEPT !.rightIdent[i + 1] = corrupted(@)]
      [] kind = "amount" -> [c EXCEPT !.amount = @ + 1]
      [] kind = "bankKey" -> [c EXCEPT !.n = OtherModulus, !.e = exponentOf(OtherModulus)]

\* transcripts a caller can hand to determineCheater without having run acceptCoin.
\* Per position the two entries are: the same share; the two shares of a coin of
\* alice; a buffer that is no share against a share; buffers of different lengths;
\* a hole against a share
PairKinds == {"same", "opposite", "garbled", "mismatch", "hole"}

forgedLeft == leftShare(Alice, 1, 0)
forgedRight == rightShare(Alice, 1, 0)
junkValue ==
    [ref |-> <<"junk", 0>>, bytes |-> [k \in 1..Len(forgedLeft.bytes) |-> 1]]
shortValue == [ref |-> <<"short", 0>>, bytes |-> <<1, 2>>]

risElement(i, isLeft, value) ==
    [position |-> i, isLeft |-> isLeft, value |-> value, hash |-> hash(value)]

forgedFirst(kind, i) ==
    CASE kind = "hole" -> UndefinedEntry
      [] kind = "garbled" -> risElement(i, TRUE, junkValue)
      [] OTHER -> risElement(i, TRUE, forgedLeft)

forgedSecond(kind, i) ==
    CASE kind \in {"opposite", "garbled"} -> risElement(i, FALSE, forgedRight)
      [] kind = "mismatch" -> risElement(i, FALSE, shortValue)
      [] OTHER -> risElement(i, TRUE, forgedLeft)

\* the lengths of a forged array; -1 stands for a value that is no array
ForgedShapes == {COIN_RIS_LENGTH - 1, COIN_RIS_LENGTH, COIN_RIS_LENGTH + 1, -1}

forgedArray(entry(_, _), kinds, shape) ==
    IF shape < 0 THEN NotAnArray
    ELSE Array([k \in 1..shape |-> entry(kinds[k], k - 1)])

\* The state once the modules driver.js requires are loaded (driver.js:1-10).  parseCoin
\* is a free identifier of driver.js: whether it resolves is fixed by what the modules
\* loaded before main runs have put into the global scope, and both outcomes are kept.
Init ==
    /\ BANK_KEY = UndefinedKey
    /\ N = ""
    /\ E = ""
    /\ parseCoinBound \in BOOLEAN
    /\ risLength \in {0, RisLengthBound}
    /\ coin = NoCoin
    /\ tamper = NoTamper
    /\ pc = "start"
    /\ ris1 = NotAnArray
    /\ ris2 = NotAnArray
    /\ lastAccept = NoAccept
    /\ signLog = <<>>
    /\ verdict1 = NoVerdict
    /\ verdict2 = NoVerdict

\* GenerateKey with the outcome of keyGeneration not looked at
GenerateKeyIgnoresFailure ==
    /\ pc = "start"
    /\ \E generated \in KeyGenerationOutcomes :
           /\ BANK_KEY' = IF generated.threw THEN BANK_KEY ELSE generated.key
           /\ pc' = "derive"
    /\ UNCHANGED <<N, E, parseCoinBound, risLength, signLog, coin, tamper, ris1, ris2, lastAccept,
                   verdict1, verdict2>>

\* driver.js:10-20: a throw of keyGeneration leaves BANK_KEY unassigned; that throw and
\* the one for a result without keyPair end in the catch, which exits the process
GenerateKey ==
    /\ pc = "start"
    /\ \E generated \in KeyGenerationOutcomes :
           /\ BANK_KEY' = IF generated.threw THEN BANK_KEY ELSE generated.key
           /\ pc' = IF generated.threw \/ ~hasKeyPair(generated.key) THEN "exit"
                     ELSE "derive"
    /\ UNCHANGED <<N, E, parseCoinBound, risLength, signLog, coin, tamper, ris1, ris2, lastAccept,
                   verdict1, verdict2>>

\* driver.js:23-24; reading keyPair.n of a BANK_KEY without keyPair is an uncaught
\* TypeError, which ends the process
DeriveNE ==
    /\ pc = "derive"
    /\ IF hasKeyPair(BANK_KEY)
       THEN /\ N' = BANK_KEY.keyPair.n
            /\ E' = BANK_KEY.keyPair.e
            /\ pc' = "create"
       ELSE /\ N' = N
            /\ E' = E
            /\ pc' = "exit"
    /\ UNCHANGED <<BANK_KEY, parseCoinBound, risLength, signLog, coin, tamper, ris1, ris2,
                   lastAccept, verdict1, verdict2>>

\* driver.js:122; a throw of the constructor ends main (driver.js:141-144)
Create ==
    /\ pc = "create"
    /\ \E purchaser \in Purchasers, amount \in Amounts, seed \in 1..NumSeeds :
           LET made == CoinConstructor(purchaser, amount, N, E, seed)
           IN  IF made.kind = "throw"
               THEN /\ pc' = "exit"
                    /\ coin' = coin
               ELSE /\ pc' = "sign"
                    /\ coin' = made.value
    /\ UNCHANGED <<BANK_KEY, N, E, parseCoinBound, risLength, signLog, tamper, ris1, ris2, lastAccept, verdict1, verdict2>>

\* Sign with the blind signature not stored on the coin
SignDiscardsSignature ==
    /\ pc = "sign"
    /\ LET signed == signCoin(coin.blinded)
       IN  /\ signLog' = Append(signLog, SignCall(coin.blinded, signed))
           /\ pc' = IF signed.kind = "throw" THEN "exit" ELSE "unblind"
           /\ coin' = coin
    /\ UNCHANGED <<BANK_KEY, N, E, parseCoinBound, risLength, tamper, ris1, ris2, lastAccept, verdict1, verdict2>>

\* the coin comes to the sign step without its blinded message, or with one the
\* library cannot sign
SpoilBlinded ==
    /\ pc = "sign"
    /\ coin.blinded \notin {<<>>, MalformedBlinded}
    /\ \E spoilt \in {<<>>, MalformedBlinded} : coin' = [coin EXCEPT !.blinded = spoilt]
    /\ UNCHANGED <<BANK_KEY, N, E, parseCoinBound, risLength, signLog, tamper, pc, ris1, ris2, lastAccept,
                   verdict1, verdict2>>

\* Sign with main going on to unblind whatever signCoin ended with
SignContinuesAfterFailure ==
    /\ pc = "sign"
    /\ LET signed == signCoin(coin.blinded)
       IN  /\ signLog' = Append(signLog, SignCall(coin.blinded, signed))
           /\ pc' = "unblind"
           /\ coin' = IF signed.kind = "throw" THEN coin
                      ELSE [coin EXCEPT !.signature = signed.value]
    /\ UNCHANGED <<BANK_KEY, N, E, parseCoinBound, risLength, tamper, ris1, ris2, lastAccept, verdict1, verdict2>>

\* driver.js:125; a throw of signCoin ends main (driver.js:141-144)
Sign ==
    /\ pc = "sign"
    /\ LET signed == signCoin(coin.blinded)
       IN  /\ signLog' = Append(signLog, SignCall(coin.blinded, signed))
           /\ IF signed.kind = "throw"
              THEN /\ pc' = "exit"
                   /\ coin' = coin
              ELSE /\ pc' = "unblind"
                   /\ coin' = [coin EXCEPT !.signature = signed.value]
    /\ UNCHANGED <<BANK_KEY, N, E, parseCoinBound, risLength, tamper, ris1, ris2, lastAccept, verdict1, verdict2>>

\* the blind-sign request of driver.js:125 sent again with the same blinded message
\* before the coin is unblinded (spec.md section 5)
SignAgain ==
    /\ pc = "unblind"
    /\ Len(signLog) < MaxSignRequests
    /\ LET signed == signCoin(coin.blinded)
       IN  /\ signLog' = Append(signLog, SignCall(coin.blinded, signed))
           /\ IF signed.kind = "throw"
              THEN /\ pc' = "exit"
                   /\ coin' = coin
              ELSE /\ pc' = "unblind"
                   /\ coin' = [coin EXCEPT !.signature = signed.value]
    /\ UNCHANGED <<BANK_KEY, N, E, parseCoinBound, risLength, tamper, ris1, ris2, lastAccept, verdict1, verdict2>>

\* driver.js:126; the blind-sign exchange is over
Unblind ==
    /\ pc = "unblind"
    /\ coin' = coinUnblind(coin)
    /\ pc' = "merchant1"
    /\ signLog' = <<>>
    /\ UNCHANGED <<BANK_KEY, N, E, parseCoinBound, risLength, tamper, ris1, ris2, lastAccept, verdict1, verdict2>>

\* somebody alters the signed coin before it is spent
Tamper ==
    /\ pc \in {"unblind", "merchant1"}
    /\ tamper = NoTamper
    /\ \E kind \in TamperKinds, i \in Positions :
           /\ (kind \in {"amount", "bankKey"} => i = 0)
           /\ coin' = altered(coin, kind, i)
           /\ tamper' = [kind |-> kind, at |-> i, when |-> pc]
    /\ UNCHANGED <<BANK_KEY, N, E, parseCoinBound, risLength, signLog, pc, ris1, ris2, lastAccept, verdict1, verdict2>>

\* Merchant1 with getRis handing out each share once: a disclosed share is gone after
Merchant1ConsumesShares ==
    /\ pc = "merchant1"
    /\ \E selectLeft \in Challenges :
           LET out == acceptCoin(coin, selectLeft)
           IN  /\ lastAccept' = out
               /\ IF out.kind = "return"
                  THEN /\ ris1' = Array(out.ris)
                       /\ pc' = "merchant2"
                       /\ coin' = [coin EXCEPT
                               !.leftIdent = [k \in DOMAIN @ |->
                                   IF selectLeft[k] THEN NoValue ELSE @[k]],
                               !.rightIdent = [k \in DOMAIN @ |->
                                   IF selectLeft[k] THEN @[k] ELSE NoValue]]
                  ELSE /\ ris1' = ris1
                       /\ pc' = "exit"
                       /\ coin' = coin
    /\ UNCHANGED <<BANK_KEY, N, E, parseCoinBound, risLength, signLog, tamper, ris2, verdict1, verdict2>>

\* driver.js:130; a throw of acceptCoin ends main (driver.js:141-144)
Merchant1 ==
    /\ pc = "merchant1"
    /\ \E selectLeft \in Challenges :
           LET out == acceptCoin(coin, selectLeft)
           IN  /\ lastAccept' = out
               /\ IF out.kind = "return"
                  THEN /\ ris1' = Array(out.ris)
                       /\ pc' = "merchant2"
                  ELSE /\ ris1' = ris1
                       /\ pc' = "exit"
    /\ UNCHANGED <<BANK_KEY, N, E, parseCoinBound, risLength, signLog, coin, tamper, ris2, verdict1, verdict2>>

\* acceptCoin on a coin the bank has not signed yet, or whose signature is still blinded
PrematureAccept ==
    /\ pc \in {"sign", "unblind"}
    /\ \E selectLeft \in Challenges :
           LET out == acceptCoin(coin, selectLeft)
           IN  /\ lastAccept' = out
               /\ IF out.kind = "return"
                  THEN /\ ris1' = Array(out.ris)
                       /\ pc' = "merchant2"
                  ELSE /\ ris1' = ris1
                       /\ pc' = "exit"
    /\ UNCHANGED <<BANK_KEY, N, E, parseCoinBound, risLength, signLog, coin, tamper, ris2, verdict1, verdict2>>

\* Merchant2 with every disclosed value recorded as a fresh copy of the share
Merchant2CopiesValues ==
    /\ pc = "merchant2"
    /\ \E selectLeft \in Challenges :
           LET out == acceptCoin(coin, selectLeft)
           IN  /\ lastAccept' = out
               /\ IF out.kind = "return"
                  THEN /\ ris2' = Array([k \in 1..Len(out.ris) |->
                                   [out.ris[k] EXCEPT !.value.ref = <<"copy", k - 1>>]])
                       /\ pc' = "detect"
                  ELSE /\ ris2' = ris2
                       /\ pc' = "exit"
    /\ UNCHANGED <<BANK_KEY, N, E, parseCoinBound, risLength, signLog, coin, tamper, ris1, verdict1, verdict2>>

\* driver.js:134
Merchant2 ==
    /\ pc = "merchant2"
    /\ \E selectLeft \in Challenges :
           LET out == acceptCoin(coin, selectLeft)
           IN  /\ lastAccept' = out
               /\ IF out.kind = "return"
                  THEN /\ ris2' = Array(out.ris)
                       /\ pc' = "detect"
                  ELSE /\ ris2' = ris2
                       /\ pc' = "exit"
    /\ UNCHANGED <<BANK_KEY, N, E, parseCoinBound, risLength, signLog, coin, tamper, ris1, verdict1, verdict2>>

\* a caller holding two transcripts from elsewhere has them compared
Forge ==
    /\ pc = "create"
    /\ \E kinds \in [1..(COIN_RIS_LENGTH + 1) -> PairKinds],
          shape1 \in ForgedShapes, shape2 \in ForgedShapes :
           /\ ris1' = forgedArray(forgedFirst, kinds, shape1)
           /\ ris2' = forgedArray(forgedSecond, kinds, shape2)
    /\ pc' = "detect"
    /\ UNCHANGED <<BANK_KEY, N, E, parseCoinBound, risLength, signLog, coin, tamper, lastAccept, verdict1, verdict2>>

\* driver.js:138
Detect1 ==
    /\ pc = "detect"
    /\ verdict1' = determineCheater(coin.guid, ris1, ris2)
    /\ pc' = IF verdict1'.kind = "throw" THEN "exit" ELSE "detect2"
    /\ UNCHANGED <<BANK_KEY, N, E, parseCoinBound, risLength, signLog, coin, tamper, ris1, ris2, lastAccept, verdict2>>

\* driver.js:139
Detect2 ==
    /\ pc = "detect2"
    /\ verdict2' = determineCheater(coin.guid, ris1, ris1)
    /\ pc' = IF verdict2'.kind = "throw" THEN "exit" ELSE "done"
    /\ UNCHANGED <<BANK_KEY, N, E, parseCoinBound, risLength, signLog, coin, tamper, ris1, ris2, lastAccept, verdict1>>

Next ==
    \/ GenerateKey
    \/ DeriveNE
    \/ Create
    \/ SpoilBlinded
    \/ Sign
    \/ SignAgain
    \/ Unblind
    \/ Tamper
    \/ Merchant1
    \/ PrematureAccept
    \/ Merchant2
    \/ Forge
    \/ Detect1
    \/ Detect2

Spec == Init /\ [][Next]_vars

----------------------------------------------------------------------------
(* Properties *)

\* the two transcripts of the state were returned by acceptCoin runs on the coin
fromAcceptCoin == coin.exists /\ verdict1.kind # "none"

\* some position was challenged on opposite sides in the two runs
oppositeSides(a, b) ==
    \E k \in 1..COIN_RIS_LENGTH : a.items[k].isLeft # b.items[k].isLeft

\* C1: for two transcripts returned by acceptCoin runs on a coin of purchaser P,
\* determineCheater returns P when some position was challenged on opposite sides,
\* 'merchant' when every position was challenged on the same side, and nothing else.
C1_VerdictIsPurchaserOrMerchant ==
    fromAcceptCoin =>
        /\ verdict1.kind = "return"
        /\ verdict1.value = IF oppositeSides(ris1, ris2)
                            THEN JSString(coin.purchaser)
                            ELSE JSString(MerchantStr)

\* a transcript as the claims speak of it: an array of COIN_RIS_LENGTH RIS elements
isTranscript(r) ==
    /\ r.isArray
    /\ Len(r.items) = COIN_RIS_LENGTH
    /\ \A k \in 1..COIN_RIS_LENGTH : r.items[k] # UndefinedEntry

\* C2: determineCheater(guid, T, T) returns 'merchant' for every transcript T: it never
\* yields a purchaser identity and never throws.
C2_SameTranscriptIsMerchant ==
    (verdict2.kind # "none" /\ isTranscript(ris1)) =>
        /\ verdict2.kind = "return"
        /\ verdict2.value = JSString(MerchantStr)

\* C2 witness: a transcript with shares in it was compared with itself, after the
\* comparison with another transcript had named a purchaser
C2_Witness ==
    /\ verdict2.kind = "return"
    /\ isTranscript(ris1)
    /\ verdict1.kind = "return"
    /\ verdict1.value = JSString(Alice)

\* the calls of the last acceptCoin run that disclose something: a random challenge
\* bit, or a share
disclosures(out) ==
    { k \in 1..Len(out.calls) : out.calls[k].call \in {"randomInt", "getRis"} }

\* C3: acceptCoin evaluates verifySignature before any disclosure challenge: no random
\* bit is drawn and getRis is not called unless verifySignature has returned true, and
\* when it returns false acceptCoin throws the invalid-signature error with no getRis
\* call and no transcript.
C3_VerifyBeforeDisclosure ==
    lastAccept.kind # "none" =>
        /\ lastAccept.calls[1] = VerifyCall
        /\ \A k \in 2..Len(lastAccept.calls) : lastAccept.calls[k] # VerifyCall
        /\ (disclosures(lastAccept) # {} => verifySignature(coin))
        /\ (~verifySignature(coin) =>
                /\ lastAccept.kind = "throw"
                /\ lastAccept.error = "Invalid coin signature: Potential forgery detected"
                /\ lastAccept.calls = <<VerifyCall>>
                /\ lastAccept.ris = <<>>
                /\ pc = "exit")

\* C3 witness: a signed coin whose amount was altered was offered to a merchant, who
\* rejected it
C3_Witness ==
    /\ lastAccept.kind = "throw"
    /\ lastAccept.error = "Invalid coin signature: Potential forgery detected"
    /\ tamper.kind = "amount"
    /\ coin.signature.present

\* the commitment a share of the coin must hash to
committed(c, isLeft, i) == IF isLeft THEN c.leftHashes[i + 1] ELSE c.rightHashes[i + 1]

shareVerifies(c, isLeft, i) == hash(getRis(c, isLeft, i)) = committed(c, isLeft, i)

\* the getRis calls of an acceptCoin run, in order
getRisCalls(out) == SelectSeq(out.calls, LAMBDA e : e.call = "getRis")

\* C4: acceptance is all-or-nothing: when the share getRis returns at position i does not
\* hash to the commitment of the challenged side, acceptCoin throws at that position and
\* the caller gets no transcript, neither the elements checked before nor later ones; a
\* transcript is returned only when all COIN_RIS_LENGTH positions verified.
C4_AllOrNothing ==
    lastAccept.kind # "none" =>
        LET g == getRisCalls(lastAccept)
        IN  /\ \A k \in 1..Len(g) : g[k].i = k - 1
            /\ \A k \in 1..Len(g) :
                   ~shareVerifies(coin, g[k].isLeft, g[k].i) =>
                       /\ lastAccept.kind = "throw"
                       /\ lastAccept.error = "RIS validation failed at position"
                       /\ lastAccept.at = g[k].i
                       /\ k = Len(g)
            /\ (lastAccept.kind = "throw" =>
                   /\ lastAccept.ris = <<>>
                   /\ pc = "exit"
                   /\ ris2 = NotAnArray
                   /\ (ris1 = NotAnArray \/ Len(ris1.items) = COIN_RIS_LENGTH))
            /\ (lastAccept.kind = "return" =>
                   /\ Len(g) = COIN_RIS_LENGTH
                   /\ Len(lastAccept.ris) = COIN_RIS_LENGTH
                   /\ \A k \in 1..Len(g) : shareVerifies(coin, g[k].isLeft, g[k].i))

\* C4 witness: a share was altered, the earlier positions verified, the altered one was
\* challenged and the merchant ended without a transcript
C4_Witness ==
    /\ tamper.kind \in {"leftShare", "rightShare"}
    /\ lastAccept.kind = "throw"
    /\ lastAccept.error = "RIS validation failed at position"
    /\ lastAccept.at = tamper.at
    /\ lastAccept.at >= 1
    /\ ris1 = NotAnArray

\* an RIS element as acceptCoin has to record it for index k of a transcript of coin c
validElement(c, e, k) ==
    /\ e.position = k - 1
    /\ hash(e.value) = committed(c, e.isLeft, k - 1)
    /\ e.hash = committed(c, e.isLeft, k - 1)
    /\ e.value = getRis(c, e.isLeft, k - 1)

validTranscript(c, items) ==
    /\ Len(items) = COIN_RIS_LENGTH
    /\ \A k \in 1..Len(items) : validElement(c, items[k], k)

\* C5: every transcript acceptCoin returns has exactly COIN_RIS_LENGTH elements, element
\* k is the one of position k, its value is the share of the side isLeft names, and both
\* the hash of the value and the recorded hash are that side's commitment.
C5_TranscriptWellFormed ==
    /\ (lastAccept.kind = "return" => validTranscript(coin, lastAccept.ris))
    /\ (coin.exists /\ ris1.isArray => validTranscript(coin, ris1.items))
    /\ (coin.exists /\ ris2.isArray => validTranscript(coin, ris2.items))

\* C5 witness: two merchants accepted the coin, the second one with a right share
C5_Witness ==
    /\ coin.exists
    /\ ris1.isArray
    /\ ris2.isArray
    /\ \E k \in 1..COIN_RIS_LENGTH : ~ris2.items[k].isLeft
    /\ \E k \in 1..COIN_RIS_LENGTH : ris2.items[k].isLeft

\* where the coin is in its issuance: constructing a coin blinds its message at once,
\* signing stores the bank's blind signature, unblinding replaces it
issuanceState(c) ==
    IF ~c.exists THEN "none"
    ELSE IF ~c.signature.present THEN "Blinded"
    ELSE IF c.signature.mask = c.blindingFactor THEN "Signed"
    ELSE "Unblinded"

\* C6 as claimed: verifySignature is true for a coin constructed, signed and
\* unblinded, and false once a commitment hash, the amount or the bank public key the
\* coin is bound to was altered after signing.
C6_AnyAlterationFailsVerify ==
    issuanceState(coin) = "Unblinded" =>
        (verifySignature(coin) <=>
            tamper.kind \notin {"leftHash", "rightHash", "amount", "bankKey"})

\* C6 amended: verifySignature is true for a coin constructed, signed and unblinded,
\* and false once a commitment hash or the amount was altered after signing; the key
\* fields stored on the coin are not part of what it verifies (it runs under the
\* driver's N and E over coin.toString()): altering them after unblinding leaves it
\* true, altering them before makes unblind yield no valid signature.
C6_HashOrAmountAlterationFailsVerify ==
    issuanceState(coin) = "Unblinded" =>
        (verifySignature(coin) <=>
            /\ tamper.kind \notin {"leftHash", "rightHash", "amount"}
            /\ ~(tamper.kind = "bankKey" /\ tamper.when = "unblind"))

\* C6 witness: a commitment hash of the unblinded coin was altered and the merchant
\* rejected the coin
C6_Witness ==
    /\ issuanceState(coin) = "Unblinded"
    /\ tamper.kind = "rightHash"
    /\ ~verifySignature(coin)
    /\ lastAccept.error = "Invalid coin signature: Potential forgery detected"

\* C7: issuance runs construct, sign, unblind in this order, and acceptCoin yields a
\* transcript only for an unblinded coin: a coin without signature, or with the bank's
\* blind signature still on it, is rejected with the invalid-signature error,
\* verifySignature returning false, and no share is disclosed.
C7_OnlyUnblindedCoinAccepted ==
    /\ (pc = "create" => issuanceState(coin) = "none")
    /\ (pc = "sign" => issuanceState(coin) = "Blinded")
    /\ (pc = "unblind" => issuanceState(coin) = "Signed")
    /\ (pc \in {"merchant1", "merchant2"} => issuanceState(coin) = "Unblinded")
    /\ (lastAccept.kind = "return" => issuanceState(coin) = "Unblinded")
    /\ (lastAccept.kind # "none" /\ issuanceState(coin) # "Unblinded" =>
            /\ ~verifySignature(coin)
            /\ lastAccept =
                   Rejected("Invalid coin signature: Potential forgery detected", -1,
                            <<VerifyCall>>)
            /\ ris1 = NotAnArray
            /\ pc = "exit")

\* C7 witness: a coin that has no signature yet was offered to a merchant
C7_Witness ==
    /\ issuanceState(coin) = "Blinded"
    /\ lastAccept.kind = "throw"
    /\ lastAccept.error = "Invalid coin signature: Potential forgery detected"

\* C8 as claimed: the signature field is absent until the coin is unblinded.
C8_SignatureAbsentUntilUnblind ==
    (coin.exists /\ issuanceState(coin) # "Unblinded") => ~coin.signature.present

\* C8 amended: the signature field is absent until the sign step, which stores the
\* bank's blind signature in it; the unblind step overwrites it once; no other step
\* (acceptCoin, verifySignature, determineCheater, an alteration of other fields)
\* changes it.
C8_SignatureWrittenBySignAndUnblind ==
    [][/\ (pc = "create" /\ coin'.exists => ~coin'.signature.present)
       /\ (pc = "sign" /\ pc' = "unblind" =>
               /\ ~coin.signature.present
               /\ coin'.signature = sign(coin.blinded, BANK_KEY))
       /\ (pc = "unblind" /\ pc' = "merchant1" =>
               coin'.signature = unblind(coin.signature, coin.n, coin.blindingFactor))
       /\ (/\ coin.exists
           /\ ~(pc = "sign" /\ pc' = "unblind")
           /\ ~(pc = "unblind" /\ pc' = "merchant1")
           => coin'.signature = coin.signature)]_vars

\* C8 witness: the coin was unblinded and both merchants and both comparisons have run
C8_Witness ==
    /\ pc = "done"
    /\ coin.exists
    /\ coin.signature.present
    /\ coin.signature.mask = 0

\* C9: determineCheater fails with a malformed-transcript error before it looks at any
\* position whenever one of its transcript arguments is not an array of exactly
\* COIN_RIS_LENGTH RIS elements.
C9_MalformedTranscriptRejected ==
    (verdict1.kind # "none" /\ (~isTranscript(ris1) \/ ~isTranscript(ris2))) =>
        /\ verdict1.kind = "throw"
        /\ verdict1.error = "Invalid RIS data format"
        /\ verdict1.scanned = 0

\* the two values of position i differ and combine to a string with the sentinel
decodesAt(r1, r2, i) ==
    /\ entryAt(r1, i).value.ref # entryAt(r2, i).value.ref
    /\ ~decryptOTP(entryAt(r1, i).value, entryAt(r2, i).value).threw
    /\ startsWith(decryptOTP(entryAt(r1, i).value, entryAt(r2, i).value).str, IDENT_STR)

\* the two values of position i differ and the decode throws or lacks the sentinel
decodeFailsAt(r1, r2, i) ==
    /\ entryAt(r1, i).value.ref # entryAt(r2, i).value.ref
    /\ ~decodesAt(r1, r2, i)

\* what driver.js:104 takes as the purchaser from the string decoded at position i
purchaserAt(r1, r2, i) ==
    LET parts == split(decryptOTP(entryAt(r1, i).value, entryAt(r2, i).value).str, 58)
    IN  IF Len(parts) >= 2 THEN JSString(parts[2]) ELSE Undefined

\* C10: a position whose values differ but whose decode throws or lacks IDENT_STR does
\* not end the scan: the purchaser of the first position that decodes is returned
\* whatever failed before it, and 'merchant' is returned only after all
\* COIN_RIS_LENGTH positions were scanned without a valid decode.
C10_BadDecodeDoesNotEndScan ==
    (verdict1.kind # "none" /\ isTranscript(ris1) /\ isTranscript(ris2)) =>
        IF \E i \in Positions : decodesAt(ris1, ris2, i)
        THEN LET first == CHOOSE i \in Positions :
                              /\ decodesAt(ris1, ris2, i)
                              /\ \A j \in 0..(i - 1) : ~decodesAt(ris1, ris2, j)
             IN  verdict1 = Verdict("return", purchaserAt(ris1, ris2, first), "", first + 1)
        ELSE verdict1 = Verdict("return", JSString(MerchantStr), "", COIN_RIS_LENGTH)

\* C10 witness: the decode failed at position 0 (lengths differ) and at position 1
\* (no sentinel), and the purchaser was still named from a later position
C10_Witness ==
    /\ COIN_RIS_LENGTH >= 3
    /\ isTranscript(ris1)
    /\ isTranscript(ris2)
    /\ decodeFailsAt(ris1, ris2, 0)
    /\ decryptOTP(entryAt(ris1, 0).value, entryAt(ris2, 0).value).threw
    /\ decodeFailsAt(ris1, ris2, 1)
    /\ ~decryptOTP(entryAt(ris1, 1).value, entryAt(ris2, 1).value).threw
    /\ verdict1.kind = "return"
    /\ verdict1.value = JSString(Alice)

\* the string the two values of position i combine to
decodedAt(r1, r2, i) == decryptOTP(entryAt(r1, i).value, entryAt(r2, i).value).str

\* the lowest position of two transcripts that decodes
firstDecoding(r1, r2) ==
    CHOOSE i \in Positions :
        /\ decodesAt(r1, r2, i)
        /\ \A j \in 0..(i - 1) : ~decodesAt(r1, r2, j)

\* C11: when a position decodes to IDENT_STR ':' P for a purchaser identity P,
\* determineCheater returns at the lowest position that decodes, and what it returns
\* is P whole, also when P contains ':'; never undefined, never a part of P.
C11_ReturnsWholeIdentity ==
    (/\ verdict1.kind # "none"
     /\ isTranscript(ris1)
     /\ isTranscript(ris2)
     /\ \E i \in Positions : decodesAt(ris1, ris2, i)) =>
        LET first == firstDecoding(ris1, ris2)
        IN  /\ verdict1.kind = "return"
            /\ verdict1.scanned = first + 1
            /\ \A P \in Purchasers :
                   decodedAt(ris1, ris2, first) = identityString(P) =>
                       verdict1.value = JSString(P)

acceptStep ==
    \/ lastAccept' # lastAccept
    \/ (pc \in {"merchant1", "merchant2"} /\ pc' # pc)

\* at every position the two runs challenged on the same side they disclosed the same
\* value, and every disclosed value is the share the coin holds now
sameDisclosure ==
    /\ (coin.exists /\ ris1.isArray =>
            \A k \in 1..Len(ris1.items) :
                ris1.items[k].value = getRis(coin, ris1.items[k].isLeft, k - 1))
    /\ (coin.exists /\ ris1.isArray /\ ris2.isArray =>
            \A k \in 1..Len(ris2.items) :
                /\ ris2.items[k].value = getRis(coin, ris2.items[k].isLeft, k - 1)
                /\ (ris1.items[k].isLeft = ris2.items[k].isLeft =>
                        ris1.items[k] = ris2.items[k]))

\* C13: acceptCoin is read-only on the coin: a step in which it runs leaves every field
\* of the coin (guid, amount, commitments, shares, signature) as it was, its outcome
\* is the one of acceptCoin for the unchanged coin and some challenge bits, in every
\* run, and the value disclosed for a (side, position) is the same in every run.
C13_AcceptCoinReadOnly ==
    [][acceptStep =>
           /\ coin' = coin
           /\ lastAccept' \in {acceptCoin(coin', selectLeft) : selectLeft \in Challenges}
           /\ sameDisclosure']_vars

\* C13 witness: two runs on the same coin returned, with a position challenged on the
\* same side in both and a position challenged on opposite sides
C13_Witness ==
    /\ coin.exists
    /\ ris1.isArray
    /\ ris2.isArray
    /\ lastAccept.kind = "return"
    /\ \E k \in 1..COIN_RIS_LENGTH : ris1.items[k].isLeft = ris2.items[k].isLeft
    /\ \E k \in 1..COIN_RIS_LENGTH : ris1.items[k].isLeft # ris2.items[k].isLeft

C15_SigningFailureSurfaced ==
    /\ \A i \in 1..Len(signLog) :
           LET call == signLog[i]
           IN  /\ call.out.attempts <= 1
               /\ (call.blinded = <<>> =>
                       call.out = SignFailed("Blinded hash is required", 0))
               /\ (call.blinded # <<>> /\ signThrows(call.blinded, call.key) =>
                       call.out = SignFailed("Coin signing failed", 1))
               /\ (call.out.kind = "throw" =>
                       /\ call.out.value = Undefined
                       /\ (call.blinded = <<>> \/ signThrows(call.blinded, call.key)))
    /\ ((\E i \in 1..Len(signLog) : signLog[i].out.kind = "throw") =>
            /\ Len(signLog) = 1
            /\ pc = "exit"
            /\ issuanceState(coin) = "Blinded"
            /\ lastAccept = NoAccept
            /\ ris1 = NotAnArray
            /\ ris2 = NotAnArray
            /\ verdict1 = NoVerdict
            /\ verdict2 = NoVerdict)

\* C15 witness: blindSignatures.sign threw, signCoin threw 'Coin signing failed' after
\* that one attempt and main ended with the coin unsigned
C15_Witness ==
    /\ Len(signLog) = 1
    /\ signLog[1].out = SignFailed("Coin signing failed", 1)
    /\ pc = "exit"
    /\ coin.exists
    /\ ~coin.signature.present

\* the calls of an acceptCoin run that goes through every position once, in order
fullRunCalls(out) ==
    /\ Len(out.calls) = 2 + 2 * COIN_RIS_LENGTH
    /\ out.calls[1] = VerifyCall
    /\ out.calls[2] = ParseCall
    /\ \A i \in Positions :
           /\ out.calls[3 + 2 * i].call = "randomInt"
           /\ out.calls[4 + 2 * i].call = "getRis"
           /\ out.calls[4 + 2 * i].i = i

\* C16: for a validly signed, unblinded coin whose shares all match their commitments,
\* acceptCoin returns a transcript whatever challenge bits are drawn: after the
\* signature check it obtains the commitment hashes with parseCoin(coin.toString()),
\* goes through the COIN_RIS_LENGTH positions once each and ends without throwing.
C16_ValidCoinAlwaysAccepted ==
    (/\ lastAccept.kind # "none"
     /\ issuanceState(coin) = "Unblinded"
     /\ verifySignature(coin)
     /\ \A i \in Positions, isLeft \in BOOLEAN : shareVerifies(coin, isLeft, i)) =>
        /\ lastAccept.kind = "return"
        /\ Len(lastAccept.ris) = COIN_RIS_LENGTH
        /\ fullRunCalls(lastAccept)

\* the positions, among the first n, at which determineCheater enters the decode of
\* driver.js:96-101: those where ris1[i].value !== ris2[i].value
decodeAttempts(r1, r2, n) ==
    { i \in 0..(n - 1) : entryAt(r1, i).value.ref # entryAt(r2, i).value.ref }

\* C17: for two transcripts acceptCoin returned for the same coin, at every position
\* the values are unequal (as !== compares them, and byte for byte) exactly when the
\* sides differ, so the positions determineCheater attempts a decode at are, among
\* those it looked at, exactly the ones challenged on opposite sides.
C17_ValueInequalityIffOppositeSides ==
    (coin.exists /\ ris1.isArray /\ ris2.isArray) =>
        /\ \A k \in 1..COIN_RIS_LENGTH :
               /\ (ris1.items[k].value.ref # ris2.items[k].value.ref
                       <=> ris1.items[k].isLeft # ris2.items[k].isLeft)
               /\ (ris1.items[k].value.bytes # ris2.items[k].value.bytes
                       <=> ris1.items[k].isLeft # ris2.items[k].isLeft)
        /\ (verdict1.kind # "none" =>
               decodeAttempts(ris1, ris2, verdict1.scanned) =
                   { i \in 0..(verdict1.scanned - 1) :
                         ris1.items[i + 1].isLeft # ris2.items[i + 1].isLeft })

\* C17 witness: the two runs agreed on the side of position 0 and disagreed on a later
\* one, and determineCheater went past position 0 without a decode
C17_Witness ==
    /\ coin.exists
    /\ ris1.isArray
    /\ ris2.isArray
    /\ COIN_RIS_LENGTH >= 2
    /\ ris1.items[1].isLeft = ris2.items[1].isLeft
    /\ verdict1.kind = "return"
    /\ verdict1.scanned >= 2
    /\ decodeAttempts(ris1, ris2, verdict1.scanned) # {}
    /\ 0 \notin decodeAttempts(ris1, ris2, verdict1.scanned)

\* the coin identifiers a caller can pass besides the coin's own
Guids == 0..(NumSeeds + 1)

\* C18: determineCheater is symmetric in its transcript arguments and independent of
\* guid: for transcripts A and B of COIN_RIS_LENGTH elements the call
\* determineCheater(g, A, B) of driver.js:138 ends as determineCheater(g', B, A) does
\* for every g', with the same returned value, and it leaves A and B as they were.
C18_SymmetricAndGuidIndependent ==
    [][(pc = "detect" /\ pc' # pc /\ isTranscript(ris1) /\ isTranscript(ris2)) =>
           /\ ris1' = ris1
           /\ ris2' = ris2
           /\ \A g \in Guids :
                  /\ determineCheater(g, ris1', ris2') = verdict1'
                  /\ determineCheater(g, ris2', ris1') = verdict1']_vars

\* C18 witness: two different transcripts were compared, the decode threw at one
\* position and named the purchaser at another
C18_Witness ==
    /\ verdict1.kind = "return"
    /\ verdict1.value = JSString(Alice)
    /\ isTranscript(ris1)
    /\ isTranscript(ris2)
    /\ ris1 # ris2
    /\ \E i \in Positions :
           /\ entryAt(ris1, i).value.ref # entryAt(ris2, i).value.ref
           /\ decryptOTP(entryAt(ris1, i).value, entryAt(ris2, i).value).threw
    /\ determineCheater(0, ris2, ris1).value = JSString(Alice)

\* keyGeneration threw, or what it returned has no keyPair
keyGenerationFailed == pc # "start" /\ ~hasKeyPair(BANK_KEY)

\* C19: a failure of the bank's key generation is fatal at startup: when keyGeneration
\* throws or returns something without a keyPair the process exits with N and E not
\* derived and without a coin created, a signCoin call, an acceptCoin call or a
\* determineCheater call; N and E are derived only from a key pair, and main starts
\* only with them derived.
C19_KeyGenerationFailureIsFatal ==
    /\ (keyGenerationFailed =>
            /\ pc = "exit"
            /\ N = ""
            /\ E = ""
            /\ ~coin.exists
            /\ signLog = <<>>
            /\ lastAccept = NoAccept
            /\ ris1 = NotAnArray
            /\ ris2 = NotAnArray
            /\ verdict1 = NoVerdict
            /\ verdict2 = NoVerdict)
    /\ (N # "" \/ E # "" =>
            /\ hasKeyPair(BANK_KEY)
            /\ N = BANK_KEY.keyPair.n
            /\ E = BANK_KEY.keyPair.e)
    /\ (pc \notin {"start", "derive", "exit"} => N # "" /\ E # "")

\* C19 witness: keyGeneration returned an object without keyPair and the process exited
C19_Witness ==
    /\ BANK_KEY = ObjectWithoutKeyPair
    /\ pc = "exit"
    /\ N = ""
    /\ ~coin.exists

====
